---- MODULE Spec2Model ----
\* Order service: POST /orders (create_order) with Idempotency-Key
\* deduplication, the identity / billing / notification gateway calls and the
\* race-checked insert into the orders table.
\* Model of src/services/order_service/main.py and models.py.
EXTENDS Integers, Sequences, FiniteSets, TLC

\* ---------------------------------------------------------------- bounds
\* Number of create_order requests that are ever received.
NCalls == 2
\* Largest value datetime.utcnow() reaches (clock ticks).
MaxTime == 2

\* ---------------------------------------------------------------- values
Calls == 1..NCalls

\* Optional[T]: None is the empty sequence, a present value v is <<v>>.
None == <<>>
Some(v) == <<v>>

\* Values of the Idempotency-Key header: absent, the empty string, a token.
HeaderValues == {None, Some(""), Some("abc")}

\* OrderCreate bodies that pass validation (user_id >= 1, price > 0).
OrderCreate == {[user_id |-> 1, price |-> 50], [user_id |-> 2, price |-> 100]}

\* OrderStatus enum.
CONFIRMED == "confirmed"
FAILED == "failed"

HTTP_201_CREATED == 201
HTTP_404_NOT_FOUND == 404
HTTP_500_INTERNAL_SERVER_ERROR == 500

\* dict.get(key, default) on a dict modelled as a function on its keys.
Get(d, k, default) == IF k \in DOMAIN d THEN d[k] ELSE default

\* What `await user_client.get_user(user_id)` can do: return the profile
\* (Some(dict) with an email) or raise (None).
UserOutcomes(user_id) ==
    { None,
      Some([email |-> IF user_id = 1 THEN "u1@example.com" ELSE "u2@example.com"]) }

\* What `await billing_client.withdraw(user_id, price)` can do: raise (None)
\* or return a dict whose keys withdrawn, message and balance are each optional
\* (the last one is the empty dict).
BillingOutcomes ==
    { None,
      Some([withdrawn |-> TRUE, balance |-> 450]),
      Some([withdrawn |-> TRUE]),
      Some([withdrawn |-> FALSE, message |-> "insufficient funds"]),
      Some(<< >>) }

\* What `await notification_client.send_email(...)` can do: return or raise.
NotificationOutcomes == {"ack", "raised"}

\* str() of a float price, as the f-string renders it.
FormatFloat(x) ==
    CASE x = 50 -> "50.0"
      [] x = 100 -> "100.0"

\* str() of the balance value of the billing response (a JSON number).
FormatBalance(x) ==
    CASE x = 450 -> "450"

\* A test for presence only: `if idempotency_key is not None:`.
IsNotNone(idempotency_key) == idempotency_key # None

\* `if idempotency_key:` -- truthiness of an Optional[str].
Truthy(idempotency_key) ==
    /\ idempotency_key # None
    /\ idempotency_key[1] # ""

\* A classification that confirms every order.
AlwaysConfirmed(withdrawal_success) == CONFIRMED

\* OrderStatus.CONFIRMED if withdrawal_success else OrderStatus.FAILED
StatusValue(withdrawal_success) ==
    IF withdrawal_success THEN CONFIRMED ELSE FAILED

\* The f-string of email_body, as the sequence of its pieces.
EmailBody(price, payment, withdrawal_success, message) ==
    IF withdrawal_success
    THEN << "Pismo schastya: zakaz na summu ", FormatFloat(price),
            " podtverzhden. Balans ",
            IF "balance" \in DOMAIN payment
            THEN FormatBalance(payment["balance"]) ELSE "n/a" >>
    ELSE << "Pismo gorya: ne udalos spisat ", FormatFloat(price), ". ", message >>

\* A lookup that never finds the row (a bug of the re-read).
FindNothing(rows, key) == None

\* select(Order).where(Order.idempotency_key == key) ... .first()
FindByKey(rows, key) ==
    LET hits == {i \in 1..Len(rows) : rows[i].idempotency_key = key}
    IN  IF hits = {} THEN None
        ELSE Some(rows[CHOOSE i \in hits : \A j \in hits : i <= j])

\* A table without the unique index: no commit is ever rejected.
NoUniqueIndex(rows, key) == FALSE

\* A unique index in which NULL keys collide as well.
NullsCollide(rows, key) ==
    \E i \in 1..Len(rows) : rows[i].idempotency_key = key

\* unique=True on Order.idempotency_key: the commit raises IntegrityError
\* when a row with the same non-NULL key exists (NULLs never collide).
UniqueViolation(rows, key) ==
    /\ key # None
    /\ \E i \in 1..Len(rows) : rows[i].idempotency_key = key

\* OrderRead(**order.model_dump()): the response model has no idempotency_key.
OrderRead(o) ==
    [id |-> o.id, user_id |-> o.user_id, price |-> o.price, status |-> o.status,
     message |-> o.message, created_at |-> o.created_at]

\* A response of the endpoint: status code, body (an OrderRead or none), detail.
OrderResponse(o) ==
    [status_code |-> HTTP_201_CREATED, body |-> Some(OrderRead(o)), detail |-> ""]
ErrorResponse(code, detail) ==
    [status_code |-> code, body |-> None, detail |-> detail]

HTTP_200_OK == 200

\* Values of the user_id query parameter of GET /orders: absent or a user.
UserFilters == {None, Some(1)}

\* A filter that lets every row through.
MatchesAll(row, user_id) == TRUE

\* statement.where(Order.user_id == user_id), applied when user_id is not None.
Matches(row, user_id) == user_id = None \/ row.user_id = user_id[1]

\* An ordering by created_at, newest first.
OrderedDescending(rows) ==
    \A m, n \in 1..Len(rows) : m < n => rows[m].created_at >= rows[n].created_at

\* statement.order_by(Order.created_at): ascending; rows with equal
\* created_at come in any order.
OrderedByCreatedAt(rows) ==
    \A m, n \in 1..Len(rows) : m < n => rows[m].created_at <= rows[n].created_at

\* session.exec(statement.order_by(Order.created_at)).all(): the sequences the
\* query can return, each matching row once.
SelectOrders(rows, user_id) ==
    LET hits == {i \in 1..Len(rows) : Matches(rows[i], user_id)}
        n == Cardinality(hits)
    IN  { [m \in 1..n |-> rows[f[m]]] :
            f \in {g \in [1..n -> hits] :
                     /\ \A a, b \in 1..n : a # b => g[a] # g[b]
                     /\ OrderedByCreatedAt([m \in 1..n |-> rows[g[m]]])} }

\* An insert that updates the newest row instead of adding one (an upsert).
InsertOverwriting(rows, order) ==
    IF rows = << >> THEN Append(rows, order)
    ELSE [rows EXCEPT ![Len(rows)] = [order EXCEPT !.id = Len(rows)]]

\* session.add(order); session.commit() when the commit is accepted.
Insert(rows, order) == Append(rows, order)

\* A recovery that returns an empty 201 instead of re-raising.
RecoveryNeverRaises(existing_order) ==
    IF existing_order # None
    THEN OrderResponse(existing_order[1])
    ELSE [status_code |-> HTTP_201_CREATED, body |-> None, detail |-> ""]

\* Lines 79-81: return the row the re-read found, or re-raise the
\* IntegrityError (a server error) when it found none.
RaceRecoveryResponse(existing_order) ==
    IF existing_order # None
    THEN OrderResponse(existing_order[1])
    ELSE ErrorResponse(HTTP_500_INTERNAL_SERVER_ERROR, "IntegrityError")

\* ---------------------------------------------------------------- state
VARIABLES
    orders,            \* the orders table: committed rows, row i has id i
    clock,             \* datetime.utcnow()
    pc,                \* per request: where its create_order coroutine is
    idempotency_key,   \* per request: the Idempotency-Key header
    payload,           \* per request: the OrderCreate body
    user,              \* per request: the resolved user (Optional dict)
    payment,           \* per request: the billing response dict
    withdrawal_success,\* per request
    message,           \* per request: the billing message
    email_body,        \* per request
    response,          \* per request: Optional response sent to the caller
    listing,           \* the last response of GET /orders (Optional)
    hist               \* per request: what the request has done so far

vars == << orders, clock, pc, idempotency_key, payload, user, payment,
           withdrawal_success, message, email_body, response, listing, hist >>

locals == << payment, withdrawal_success, message, email_body >>

\* History of one request: outcome of each gateway call ("none" when not
\* made), number of commits attempted, id of the row it inserted (0 = none),
\* whether its commit was rejected, whether a row with its key was already
\* committed when it arrived, whether the billing response had a message,
\* and how it returned.
NoHist ==
    [identity |-> "none", billing |-> "none", notification |-> "none",
     commits |-> 0, inserted |-> 0, rejected |-> FALSE,
     existed |-> FALSE, gave_message |-> FALSE, path |-> "none"]

Init ==
    /\ orders = << >>
    /\ clock = 0
    /\ pc = [c \in Calls |-> "idle"]
    /\ idempotency_key = [c \in Calls |-> None]
    /\ payload = [c \in Calls |-> [user_id |-> 1, price |-> 50]]
    /\ user = [c \in Calls |-> None]
    /\ payment = [c \in Calls |-> << >>]
    /\ withdrawal_success = [c \in Calls |-> FALSE]
    /\ message = [c \in Calls |-> ""]
    /\ email_body = [c \in Calls |-> << >>]
    /\ response = [c \in Calls |-> None]
    /\ listing = None
    /\ hist = [c \in Calls |-> NoHist]

\* ---------------------------------------------------------------- actions

\* The coroutine of request c returns or raises: its local variables are gone.
Free(c) ==
    /\ user' = [user EXCEPT ![c] = None]
    /\ payment' = [payment EXCEPT ![c] = << >>]
    /\ withdrawal_success' = [withdrawal_success EXCEPT ![c] = FALSE]
    /\ message' = [message EXCEPT ![c] = ""]
    /\ email_body' = [email_body EXCEPT ![c] = << >>]

\* Request c arrives with header key and body body; lines 33-38: the fast-path
\* lookup, returning the existing order when the key is truthy and found.
\* Requests are numbered in order of arrival.
DedupFastPath(c) ==
    /\ pc[c] = "idle"
    /\ \A d \in Calls : d < c => pc[d] # "idle"
    /\ \E key \in HeaderValues, body \in OrderCreate :
        LET existing_order == FindByKey(orders, key)
            h == [hist[c] EXCEPT !.existed = (key # None /\ existing_order # None)]
        IN  /\ idempotency_key' = [idempotency_key EXCEPT ![c] = key]
            /\ payload' = [payload EXCEPT ![c] = body]
            /\ IF Truthy(key) /\ existing_order # None
               THEN /\ response' = [response EXCEPT ![c] = Some(OrderResponse(existing_order[1]))]
                    /\ pc' = [pc EXCEPT ![c] = "done"]
                    /\ hist' = [hist EXCEPT ![c] = [h EXCEPT !.path = "fast_path"]]
               ELSE /\ response' = response
                    /\ pc' = [pc EXCEPT ![c] = "identity"]
                    /\ hist' = [hist EXCEPT ![c] = h]
    /\ UNCHANGED << orders, clock, user, locals, listing >>

\* A get_user whose exception is swallowed: the request goes on to billing.
GetUserSwallowed(c) ==
    /\ pc[c] = "identity"
    /\ \E outcome \in UserOutcomes(payload[c].user_id) :
        /\ user' = [user EXCEPT ![c] = outcome]
        /\ hist' = [hist EXCEPT ![c] =
                [@ EXCEPT !.identity = IF outcome = None THEN "raised" ELSE "ok"]]
    /\ pc' = [pc EXCEPT ![c] = "billing"]
    /\ UNCHANGED << orders, clock, idempotency_key, payload, locals, response, listing >>

\* Lines 40-43: resolve the user; any exception becomes a 404.
GetUser(c) ==
    /\ pc[c] = "identity"
    /\ \E outcome \in UserOutcomes(payload[c].user_id) :
        IF outcome = None
        THEN /\ response' = [response EXCEPT ![c] =
                    Some(ErrorResponse(HTTP_404_NOT_FOUND, "User not found"))]
             /\ pc' = [pc EXCEPT ![c] = "done"]
             /\ hist' = [hist EXCEPT ![c] =
                    [@ EXCEPT !.identity = "raised", !.path = "not_found"]]
             /\ user' = user
        ELSE /\ user' = [user EXCEPT ![c] = outcome]
             /\ pc' = [pc EXCEPT ![c] = "billing"]
             /\ hist' = [hist EXCEPT ![c] = [@ EXCEPT !.identity = "ok"]]
             /\ response' = response
    /\ UNCHANGED << orders, clock, idempotency_key, payload, locals, listing >>

\* Lines 45-61: the withdrawal, its classification and the message.
Withdraw(c) ==
    /\ pc[c] = "billing"
    /\ \E outcome \in BillingOutcomes :
        LET raised == outcome = None
            pay == IF raised THEN << >> ELSE outcome[1]
            success == IF raised THEN FALSE ELSE Get(pay, "withdrawn", FALSE)
            msg == IF raised THEN "Billing unavailable" ELSE Get(pay, "message", "")
        IN  /\ payment' = [payment EXCEPT ![c] = pay]
            /\ withdrawal_success' = [withdrawal_success EXCEPT ![c] = success]
            /\ message' = [message EXCEPT ![c] = msg]
            /\ email_body' = [email_body EXCEPT ![c] =
                    EmailBody(payload[c].price, pay, success, msg)]
            /\ hist' = [hist EXCEPT ![c] =
                    [@ EXCEPT !.billing =
                        IF raised THEN "raised"
                        ELSE IF "withdrawn" \in DOMAIN pay /\ pay["withdrawn"]
                             THEN "withdrawn" ELSE "declined",
                              !.gave_message = ~raised /\ "message" \in DOMAIN pay]]
    /\ pc' = [pc EXCEPT ![c] = "commit"]
    /\ UNCHANGED << orders, clock, idempotency_key, payload, user, response, listing >>

\* Lines 63-83: build the Order (created_at = utcnow()), add and commit it;
\* on IntegrityError roll back, re-read by key and return the row found, or
\* re-raise when none is found. existing_order is what the re-read returns.
CommitWith(c, existing_order) ==
    /\ pc[c] = "commit"
    /\ \E now \in {clock, clock + 1} :
        /\ now <= MaxTime
        /\ clock' = now
        /\ LET order == [id |-> Len(orders) + 1,
                         user_id |-> payload[c].user_id,
                         price |-> payload[c].price,
                         status |-> StatusValue(withdrawal_success[c]),
                         message |-> email_body[c],
                         created_at |-> now,
                         idempotency_key |-> idempotency_key[c]]
           IN  IF UniqueViolation(orders, idempotency_key[c])
               THEN /\ orders' = orders
                    /\ pc' = [pc EXCEPT ![c] = "done"]
                    /\ Free(c)
                    /\ response' = [response EXCEPT ![c] =
                            Some(RaceRecoveryResponse(existing_order))]
                    /\ hist' = [hist EXCEPT ![c] =
                            [@ EXCEPT !.commits = @ + 1, !.rejected = TRUE,
                                      !.path = IF existing_order # None
                                               THEN "recovered" ELSE "reread_miss"]]
               ELSE /\ orders' = Insert(orders, order)
                    /\ UNCHANGED << user, locals >>
                    /\ pc' = [pc EXCEPT ![c] = "notify"]
                    /\ response' = response
                    /\ hist' = [hist EXCEPT ![c] =
                            [@ EXCEPT !.commits = @ + 1, !.inserted = order.id]]
    /\ UNCHANGED << idempotency_key, payload, listing >>

\* A commit that answers a rejection by trying the insert again (up to three
\* times) instead of re-reading.
CommitRetrying(c) ==
    IF UniqueViolation(orders, idempotency_key[c])
    THEN /\ pc[c] = "commit"
         /\ hist[c].commits < 3
         /\ hist' = [hist EXCEPT ![c] = [@ EXCEPT !.commits = @ + 1, !.rejected = TRUE]]
         /\ UNCHANGED << orders, clock, pc, idempotency_key, payload, user, locals,
                         response, listing >>
    ELSE CommitWith(c, None)

\* The commit against the store as it is: the re-read sees the committed rows.
Commit(c) == CommitWith(c, FindByKey(orders, idempotency_key[c]))

\* The commit against a store in a transient inconsistent condition: the
\* commit is rejected by the unique index and the re-read finds no row.
CommitRereadMiss(c) ==
    /\ UniqueViolation(orders, idempotency_key[c])
    /\ CommitWith(c, None)

\* Lines 85-92: send the e-mail, then return the refreshed order. An exception
\* of send_email is not caught and ends the request with a server error.
SendEmail(c) ==
    /\ pc[c] = "notify"
    /\ \E outcome \in NotificationOutcomes :
        IF outcome = "raised"
        THEN /\ response' = [response EXCEPT ![c] =
                    Some(ErrorResponse(HTTP_500_INTERNAL_SERVER_ERROR, "send_email"))]
             /\ hist' = [hist EXCEPT ![c] =
                    [@ EXCEPT !.notification = "raised", !.path = "notify_raised"]]
        ELSE /\ response' = [response EXCEPT ![c] =
                    Some(OrderResponse(orders[hist[c].inserted]))]
             /\ hist' = [hist EXCEPT ![c] =
                    [@ EXCEPT !.notification = "ack", !.path = "fresh"]]
    /\ pc' = [pc EXCEPT ![c] = "done"]
    /\ Free(c)
    /\ UNCHANGED << orders, clock, idempotency_key, payload, listing >>

\* Lines 94-100: GET /orders with an optional user_id filter. The response
\* is kept with the filter it answers.
ListOrders ==
    /\ \E user_id \in UserFilters :
        \E found \in SelectOrders(orders, user_id) :
            listing' = Some([user_id |-> user_id,
                             status_code |-> HTTP_200_OK,
                             body |-> [m \in 1..Len(found) |-> OrderRead(found[m])]])
    /\ UNCHANGED << orders, clock, pc, idempotency_key, payload, user, locals,
                    response, hist >>

Next ==
    \E c \in Calls :
        \/ DedupFastPath(c)
        \/ GetUser(c)
        \/ Withdraw(c)
        \/ Commit(c)
        \/ SendEmail(c)

Spec == Init /\ [][Next]_vars

\* Both endpoints: POST /orders requests interleaved with GET /orders.
ListNext ==
    \/ \E c \in Calls :
        \/ DedupFastPath(c)
        \/ GetUser(c)
        \/ Withdraw(c)
        \/ Commit(c)
        \/ SendEmail(c)
    \/ ListOrders

ListSpec == Init /\ [][ListNext]_vars

\* POST /orders against a store whose re-read may transiently miss.
FaultNext ==
    \E c \in Calls :
        \/ DedupFastPath(c)
        \/ GetUser(c)
        \/ Withdraw(c)
        \/ Commit(c)
        \/ CommitRereadMiss(c)
        \/ SendEmail(c)

FaultSpec == Init /\ [][FaultNext]_vars

\* POST /orders under a scheduler that keeps running every request that is
\* in progress: each gateway call and each store operation returns or raises.
Step(c) == GetUser(c) \/ Withdraw(c) \/ Commit(c) \/ SendEmail(c)

FairSpec == Init /\ [][Next]_vars /\ \A c \in Calls : WF_vars(Step(c))

\* Sequential clients: a request arrives only when no other is in progress.
SeqNext ==
    \E c \in Calls :
        \/ /\ \A d \in Calls : pc[d] \in {"idle", "done"}
           /\ DedupFastPath(c)
        \/ GetUser(c)
        \/ Withdraw(c)
        \/ Commit(c)
        \/ SendEmail(c)

SeqSpec == Init /\ [][SeqNext]_vars

\* ---------------------------------------------------------------- claims

\* Rows of the table holding key k, and requests that arrived with key k.
RowsWithKey(k) == {i \in 1..Len(orders) : orders[i].idempotency_key = k}
CallsWithKey(k) == {c \in Calls : pc[c] # "idle" /\ idempotency_key[c] = k}
PresentKeys == HeaderValues \ {None}
IsOrderResponse(r, o) == r = Some(OrderResponse(o))

\* C1: in every reachable state two stored orders with the same non-null
\* idempotency_key have the same id (at most one order per key).
C1_AtMostOneOrderPerKey ==
    \A i, j \in 1..Len(orders) :
        (/\ orders[i].idempotency_key # None
         /\ orders[i].idempotency_key = orders[j].idempotency_key)
        => orders[i].id = orders[j].id

\* Two requests with the same key both passed the fast path and both
\* committed: one was inserted, the other rejected.
C1_Witness ==
    \E c, d \in Calls :
        /\ c # d
        /\ idempotency_key[c] = Some("abc") /\ idempotency_key[d] = Some("abc")
        /\ hist[c].inserted # 0
        /\ hist[d].rejected

\* C2: when all requests that carry key k have completed, with every
\* identity call resolved and no notification raising, the table holds exactly
\* one order with key k and every response is a 201 carrying that order's id.
C2_ConcurrentSameKey ==
    \A k \in PresentKeys :
        LET S == CallsWithKey(k) IN
        (/\ S # {}
         /\ \A c \in S : /\ pc[c] = "done"
                          /\ hist[c].identity # "raised"
                          /\ hist[c].notification # "raised")
        => /\ Cardinality(RowsWithKey(k)) = 1
           /\ \A c \in S : \A i \in RowsWithKey(k) :
                /\ response[c] # None
                /\ response[c][1].status_code = HTTP_201_CREATED
                /\ response[c][1].body # None
                /\ response[c][1].body[1].id = orders[i].id

\* All NCalls requests carried the same key, none hit the fast path, all
\* reached the commit and all have completed.
C2_Witness ==
    /\ \A c \in Calls :
        /\ idempotency_key[c] = Some("abc")
        /\ pc[c] = "done"
        /\ hist[c].commits = 1
        /\ hist[c].notification # "raised"
    /\ \E c \in Calls : hist[c].path = "recovered"

\* C3: under sequential clients, once every request that carried key k has
\* completed, all of them with the same body and a resolving user, exactly
\* one order with key k is persisted and every request got the same 201
\* response representing that order.
C3_SequentialReplay ==
    \A k \in PresentKeys :
        LET S == CallsWithKey(k) IN
        (/\ S # {}
         /\ \A c \in S : pc[c] = "done" /\ hist[c].identity # "raised"
         /\ \A c, d \in S : payload[c] = payload[d])
        => /\ Cardinality(RowsWithKey(k)) = 1
           /\ \A c \in S : \A i \in RowsWithKey(k) :
                IsOrderResponse(response[c], orders[i])

\* C4: a request that supplies a key under which an order was already
\* committed when it arrived is a replay: it returns that order, calls no
\* gateway and inserts nothing.
C4_ReplayIsNoOp ==
    \A c \in Calls :
        hist[c].existed
        => /\ pc[c] = "done"
           /\ hist[c].path = "fast_path"
           /\ hist[c].identity = "none"
           /\ hist[c].billing = "none"
           /\ hist[c].notification = "none"
           /\ hist[c].commits = 0
           /\ hist[c].inserted = 0
           /\ \A i \in RowsWithKey(idempotency_key[c]) :
                IsOrderResponse(response[c], orders[i])

\* C5: two completed requests without a key and with the same body, whose
\* users resolved, each inserted an order of its own: two rows, different ids.
C5_NoKeyIndependence ==
    \A c, d \in Calls :
        (/\ c # d
         /\ pc[c] = "done" /\ pc[d] = "done"
         /\ idempotency_key[c] = None /\ idempotency_key[d] = None
         /\ payload[c] = payload[d]
         /\ hist[c].identity = "ok" /\ hist[d].identity = "ok")
        => /\ hist[c].inserted \in 1..Len(orders)
           /\ hist[d].inserted \in 1..Len(orders)
           /\ hist[c].inserted # hist[d].inserted
           /\ orders[hist[c].inserted].id # orders[hist[d].inserted].id
           /\ \A i \in {hist[c].inserted, hist[d].inserted} :
                /\ orders[i].user_id = payload[c].user_id
                /\ orders[i].price = payload[c].price
                /\ orders[i].idempotency_key = None

\* Two keyless requests with the same body ran interleaved (both were at the
\* commit together), got different billing outcomes, and have completed.
C5_Witness ==
    \E c, d \in Calls :
        /\ c # d
        /\ pc[c] = "done" /\ pc[d] = "done"
        /\ idempotency_key[c] = None /\ idempotency_key[d] = None
        /\ payload[c] = payload[d]
        /\ hist[c].billing = "withdrawn" /\ hist[d].billing = "raised"
        /\ hist[c].inserted # 0 /\ hist[d].inserted # 0
        /\ orders[hist[c].inserted].created_at = orders[hist[d].inserted].created_at

\* Elements of a message (the pieces of the f-string).
Carries(msg, piece) == \E n \in DOMAIN msg : msg[n] = piece

\* C6: the order a request inserted is CONFIRMED iff the billing call of
\* that request returned withdrawn = true, and FAILED when it declined or
\* raised; while the request still holds the billing response, a confirmed
\* message carries the price and the reported balance, a failed one the price.
C6_Classification ==
    \A c \in Calls :
        hist[c].inserted # 0 =>
            LET o == orders[hist[c].inserted] IN
            /\ o.status = CONFIRMED <=> hist[c].billing = "withdrawn"
            /\ hist[c].billing \in {"declined", "raised"} => o.status = FAILED
            /\ o.status \in {CONFIRMED, FAILED}
            /\ Carries(o.message, FormatFloat(o.price))
            /\ o.price = payload[c].price
            /\ pc[c] = "notify" =>
                /\ (o.status = CONFIRMED /\ "balance" \in DOMAIN payment[c])
                    => Carries(o.message, FormatBalance(payment[c]["balance"]))
                /\ o.message = email_body[c]

\* Inserted orders of each kind exist: confirmed with a balance, failed after
\* a decline, failed after an exception of the billing call.
C6_Witness ==
    \E c, d \in Calls :
        /\ hist[c].inserted # 0 /\ hist[d].inserted # 0
        /\ hist[c].billing = "withdrawn"
        /\ pc[c] = "notify" /\ "balance" \in DOMAIN payment[c]
        /\ orders[hist[c].inserted].status = CONFIRMED
        /\ hist[d].billing \in {"declined", "raised"}
        /\ orders[hist[d].inserted].status = FAILED

\* C7: a request whose identity call failed got the 404 "User not found",
\* made no billing call, sent no notification and committed nothing.
C7_IdentityGate ==
    \A c \in Calls :
        hist[c].identity = "raised"
        => /\ pc[c] = "done"
           /\ response[c] = Some(ErrorResponse(HTTP_404_NOT_FOUND, "User not found"))
           /\ hist[c].billing = "none"
           /\ hist[c].notification = "none"
           /\ hist[c].commits = 0
           /\ hist[c].inserted = 0
           /\ \A i \in 1..Len(orders) : \E d \in Calls \ {c} : hist[d].inserted = i

\* The identity call of a request failed while the table already held an
\* order and another request was in progress.
C7_Witness ==
    \E c, d \in Calls :
        /\ c # d
        /\ hist[c].identity = "raised"
        /\ Len(orders) >= 1
        /\ pc[d] \in {"billing", "commit", "notify"}

\* C8: a completed request got an error response only when its identity call
\* failed (404) or its re-read after a rejected commit found nothing (500);
\* in every other execution, a raising send_email included, it got the
\* persisted order as a 201 response.
C8_OnlyTwoErrors ==
    \A c \in Calls :
        pc[c] = "done" =>
            IF hist[c].identity = "raised"
            THEN response[c][1].status_code = HTTP_404_NOT_FOUND
            ELSE IF hist[c].path = "reread_miss"
            THEN response[c][1].status_code = HTTP_500_INTERNAL_SERVER_ERROR
            ELSE /\ response[c][1].status_code = HTTP_201_CREATED
                 /\ \E i \in 1..Len(orders) : IsOrderResponse(response[c], orders[i])

\* C9: a request whose commit was rejected by the unique index has completed
\* with a 201 carrying the order that another request inserted under its
\* key; it committed once, inserted nothing and sent no notification.
C9_RaceRecovery ==
    \A c \in Calls :
        hist[c].rejected
        => /\ pc[c] = "done"
           /\ hist[c].path = "recovered"
           /\ hist[c].commits = 1
           /\ hist[c].inserted = 0
           /\ hist[c].notification = "none"
           /\ \E i \in RowsWithKey(idempotency_key[c]) :
                /\ IsOrderResponse(response[c], orders[i])
                /\ response[c][1].status_code = HTTP_201_CREATED
                /\ \E d \in Calls \ {c} : hist[d].inserted = i

\* A request lost the race against a concurrent one: no order with its key
\* existed when it arrived, its commit was rejected, and the order it got
\* back differs from the one it tried to insert.
C9_Witness ==
    \E c \in Calls :
        /\ hist[c].rejected
        /\ ~hist[c].existed
        /\ Truthy(idempotency_key[c])
        /\ hist[c].billing = "withdrawn"
        /\ response[c][1].body[1].status = FAILED

\* Requests that made the send_email call (whatever its outcome).
Notified == {c \in Calls : hist[c].notification # "none"}

\* C10: a notification is sent only by a request that inserted an order,
\* after the commit: the notifications never outnumber the persisted
\* orders, at most one is sent per key, and a request that returned an
\* existing order (fast path or race recovery) sent none.
C10_NotifyOnlyFreshInsert ==
    /\ Cardinality(Notified) <= Len(orders)
    /\ \A c \in Notified :
        /\ hist[c].inserted \in 1..Len(orders)
        /\ orders[hist[c].inserted].idempotency_key = idempotency_key[c]
    /\ \A k \in PresentKeys :
        Cardinality({c \in Notified : idempotency_key[c] = k}) <= 1
    /\ \A c \in Calls :
        hist[c].path \in {"fast_path", "recovered"} => c \notin Notified
    /\ \A c \in Calls :
        pc[c] \in {"identity", "billing", "commit", "notify"} => c \notin Notified

\* Of two requests with the same key one sent its notification and the other
\* hit the fast path or lost the race, and sent none.
C10_Witness ==
    \E c, d \in Calls :
        /\ c # d
        /\ idempotency_key[c] = idempotency_key[d]
        /\ idempotency_key[c] # None
        /\ hist[c].notification = "ack"
        /\ hist[d].path \in {"fast_path", "recovered"}

\* C11: the table is append-only: no step of POST /orders or GET /orders
\* removes a committed row or changes any of its fields (id, user_id, price,
\* status, message, created_at, idempotency_key).
C11_AppendOnly ==
    [][ /\ Len(orders') >= Len(orders)
        /\ \A i \in 1..Len(orders) : orders'[i] = orders[i] ]_vars

\* A row was committed and listed, one request was rolled back after a
\* rejected commit and the other request has completed.
C11_Witness ==
    /\ Len(orders) >= 1
    /\ listing # None /\ Len(listing[1].body) >= 1
    /\ \E c \in Calls : hist[c].rejected
    /\ \A c \in Calls : pc[c] = "done"

\* C12: every completed request that made the billing call has inserted an
\* order of its own whose status records the outcome of that call (CONFIRMED
\* for a withdrawal, FAILED otherwise): no withdrawal attempt is left
\* without a record, also among requests that share a key.
C12_EveryAttemptRecorded ==
    \A c \in Calls :
        (pc[c] = "done" /\ hist[c].billing # "none")
        => /\ hist[c].inserted \in 1..Len(orders)
           /\ orders[hist[c].inserted].status =
                (IF hist[c].billing = "withdrawn" THEN CONFIRMED ELSE FAILED)

\* C13: while the inserting request still holds the billing response, the
\* message of a FAILED order carries the attempted amount and a reason: the
\* message of the billing response when it has one, and the generic
\* "Billing unavailable" when it has none (the call raised, or the response
\* declined without a message).
C13_FailureReason ==
    \A c \in Calls :
        (/\ pc[c] = "notify"
         /\ orders[hist[c].inserted].status = FAILED)
        => LET o == orders[hist[c].inserted] IN
           /\ Carries(o.message, FormatFloat(payload[c].price))
           /\ IF "message" \in DOMAIN payment[c]
              THEN Carries(o.message, payment[c]["message"])
              ELSE Carries(o.message, "Billing unavailable")

\* C14: a GET /orders step answers 200 with exactly the committed rows that
\* pass the user_id filter (all rows without a filter), each once, in
\* ascending created_at order, and leaves the table as it is.
C14_ListOrders ==
    [][ listing' # listing =>
        /\ orders' = orders
        /\ listing' # None
        /\ LET l == listing'[1]
               hits == {i \in 1..Len(orders) :
                          l.user_id = None \/ orders[i].user_id = l.user_id[1]}
           IN  /\ l.status_code = HTTP_200_OK
               /\ Len(l.body) = Cardinality(hits)
               /\ {l.body[m] : m \in 1..Len(l.body)} = {OrderRead(orders[i]) : i \in hits}
               /\ \A m, n \in 1..Len(l.body) :
                    m < n => l.body[m].created_at <= l.body[n].created_at ]_vars

\* The table holds an order of user 1 and an order of user 2 with different
\* created_at, and the last listing, filtered by user 1, returned one order.
C14_Witness ==
    /\ Len(orders) = 2
    /\ orders[1].created_at < orders[2].created_at
    /\ orders[1].user_id # orders[2].user_id
    /\ listing # None
    /\ listing[1].user_id = Some(1)
    /\ Len(listing[1].body) = 1

\* C15: a request whose commit was rejected and whose re-read found no row
\* has ended with a server error (the re-raised IntegrityError); it committed
\* once, none of the rows is its own and it sent no notification.
C15_RereadMiss ==
    \A c \in Calls :
        hist[c].path = "reread_miss"
        => /\ pc[c] = "done"
           /\ hist[c].rejected
           /\ response[c] # None
           /\ response[c][1].status_code = HTTP_500_INTERNAL_SERVER_ERROR
           /\ response[c][1].body = None
           /\ response[c][1].detail = "IntegrityError"
           /\ hist[c].commits = 1
           /\ hist[c].inserted = 0
           /\ hist[c].notification = "none"
           /\ \A i \in 1..Len(orders) : \E d \in Calls \ {c} : hist[d].inserted = i

\* A request with a successful withdrawal had its commit rejected and its
\* re-read missed, while the row of the request that won is in the table.
C15_Witness ==
    \E c \in Calls :
        /\ hist[c].path = "reread_miss"
        /\ hist[c].billing = "withdrawn"
        /\ RowsWithKey(idempotency_key[c]) # {}

\* Rows with status CONFIRMED, and requests whose withdrawal succeeded.
ConfirmedRows == {i \in 1..Len(orders) : orders[i].status = CONFIRMED}
Withdrawn == {c \in Calls : hist[c].billing = "withdrawn"}

\* C16: every CONFIRMED row was inserted by a request whose billing call
\* withdrew, for the user_id and price of that row; the CONFIRMED rows
\* never outnumber the successful withdrawals.
C16_ConfirmedMeansWithdrawn ==
    /\ \A i \in ConfirmedRows :
        \E c \in Withdrawn :
            /\ hist[c].inserted = i
            /\ payload[c].user_id = orders[i].user_id
            /\ payload[c].price = orders[i].price
    /\ Cardinality(ConfirmedRows) <= Cardinality(Withdrawn)

\* One CONFIRMED row and two successful withdrawals (one request lost the
\* insert race after withdrawing), with every request completed.
C16_Witness ==
    /\ Cardinality(ConfirmedRows) = 1
    /\ Cardinality(Withdrawn) = 2
    /\ \A c \in Calls : pc[c] = "done"

\* C17: a completed request with key k whose body differs from the order
\* stored under k -- stored before it arrived, or by the request that won
\* the insert race -- got that stored order back, with the stored user_id,
\* price, status and message, through the fast path when the order was
\* committed on arrival and through race recovery otherwise, and inserted
\* nothing.
C17_DedupIgnoresPayload ==
    \A c \in Calls :
        \A i \in RowsWithKey(idempotency_key[c]) :
            (/\ pc[c] = "done"
             /\ idempotency_key[c] # None
             /\ hist[c].existed \/ hist[c].rejected
             /\ payload[c] # [user_id |-> orders[i].user_id, price |-> orders[i].price])
            => /\ IsOrderResponse(response[c], orders[i])
               /\ hist[c].inserted = 0
               /\ hist[c].path = (IF hist[c].existed THEN "fast_path" ELSE "recovered")

\* Requests that carried the empty string as key.
EmptyKeyCalls == CallsWithKey(Some(""))

\* C18 as stated: with sequential clients at most one row has the key "",
\* and every completed request with key "" that arrived when that row was
\* committed skipped the fast path, made the identity and billing calls, had
\* its one commit rejected and got the stored row through race recovery.
C18_EmptyKeyAsStated ==
    /\ Cardinality(RowsWithKey(Some(""))) <= 1
    /\ \A c \in EmptyKeyCalls :
        (pc[c] = "done" /\ hist[c].existed)
        => /\ hist[c].identity # "none"
           /\ hist[c].billing # "none"
           /\ hist[c].commits = 1
           /\ hist[c].rejected
           /\ hist[c].path = "recovered"
           /\ hist[c].inserted = 0
           /\ \A i \in RowsWithKey(Some("")) : IsOrderResponse(response[c], orders[i])

\* C18 amended: as above, but a later request repeats the billing call and
\* recovers the stored row only when its identity call resolves; when that
\* call fails it ends with the 404 and no billing call. A row inserted by a
\* request with key "" stores "" as its idempotency_key.
C18_EmptyKey ==
    /\ Cardinality(RowsWithKey(Some(""))) <= 1
    /\ \A c \in EmptyKeyCalls :
        /\ hist[c].path # "fast_path"
        /\ hist[c].inserted # 0 => orders[hist[c].inserted].idempotency_key = Some("")
        /\ (pc[c] = "done" /\ hist[c].existed)
            => /\ hist[c].identity # "none"
               /\ hist[c].inserted = 0
               /\ hist[c].identity = "ok"
                    => /\ hist[c].billing # "none"
                       /\ hist[c].commits = 1
                       /\ hist[c].rejected
                       /\ hist[c].path = "recovered"
                       /\ \A i \in RowsWithKey(Some("")) :
                            IsOrderResponse(response[c], orders[i])
               /\ hist[c].identity = "raised"
                    => /\ hist[c].billing = "none"
                       /\ hist[c].commits = 0
                       /\ response[c][1].status_code = HTTP_404_NOT_FOUND

\* Two requests with key "" ran one after the other: the first inserted the
\* row, the second withdrew again, was rejected and recovered the row.
C18_Witness ==
    \E c, d \in EmptyKeyCalls :
        /\ hist[c].inserted # 0
        /\ hist[d].existed
        /\ hist[d].billing = "withdrawn"
        /\ hist[d].path = "recovered"

\* C19: a request has a response exactly when it has completed, it commits
\* at most once, and under weak fairness of the running requests every
\* request that has arrived eventually completes, whatever the other
\* requests do.
C19_EveryCallCompletes ==
    /\ [](\A c \in Calls : /\ (pc[c] = "done") <=> (response[c] # None)
                            /\ hist[c].commits <= 1)
    /\ \A c \in Calls : (pc[c] # "idle") ~> (pc[c] = "done")

\* All requests carried the same key, were in progress at the same time (all
\* reached the commit) and have completed.
C19_Witness ==
    \A c \in Calls :
        /\ idempotency_key[c] = Some("abc")
        /\ hist[c].commits = 1
        /\ pc[c] = "done"
        /\ response[c] # None
====
